---- MODULE Spec2Model ----
(***************************************************************************)
(* Model of the Pokemon scrapers of lilyxgates/pokemon_db.                 *)
(*                                                                         *)
(* The image scraper (src/pokemon_db_image_scraper.py) is a sequential     *)
(* script: it fetches the listing page, de-duplicates names and links,     *)
(* pairs them in link_frame, then visits every row, retrying each download *)
(* up to retry_limit times, and finally writes the failure log.  The disk  *)
(* (image files, failed_pokemon.txt) survives from one run to the next.    *)
(*                                                                         *)
(* Strings are sequences of characters (or of longer tokens where only     *)
(* prefixes matter), so that lower(), replace() and startswith() are       *)
(* computed rather than assumed.                                           *)
(***************************************************************************)
EXTENDS Integers, Sequences, FiniteSets, TLC

VARIABLES
    site_anchors,    \* the 'a.ent-name' anchors of the listing page, in page order
    pc,              \* position of the script
    run,             \* number of the current run of the script
    pokemon_names,   \* line 37
    completed_links, \* line 40
    unique_pokemon,  \* line 46
    unique_links,    \* line 52
    link_frame,      \* line 61
    counter,         \* index of the row the for-loop is at (line 85)
    attempts,        \* line 128
    image_url,       \* line 138
    page_h1,         \* header name of the detail page last fetched (never read by the script)
    failed_pokemon,  \* line 83
    files,           \* image files on disk: path -> content
    failed_txt,      \* failed_pokemon.txt on disk
    progress_file,   \* the progress file named by the docstring (lines 90, 100, 107)
    listing_gets,    \* history: listing requests sent in this run
    page_gets,       \* history: detail-page requests sent for the current row
    img_gets,        \* history: image requests sent for the current row
    outcomes,        \* history: terminal outcome of every row visited in this run
    files_at_start,  \* history: paths present on disk when this run started
    noimage_before,  \* history: keys whose page had no image in an earlier run
    \* the table scraper (src/pokemon_db.py)
    count,           \* line 203
    poke_page,       \* the response of get(poke_site) (line 210)
    pokedex_dict,    \* line 100
    final_df,        \* line 244
    pokemon_db_csv,  \* the file written at line 254
    pokemon_csv,     \* line 257
    t_gets,          \* history: detail-page requests sent by the table scraper
    \* parsing steps taken alone
    soup,            \* the parsed detail page (image scraper line 135)
    gender_stats,    \* line 158
    male,            \* line 164
    female           \* line 165

vars == <<site_anchors, pc, run, pokemon_names, completed_links, unique_pokemon,
          unique_links, link_frame, counter, attempts, image_url, page_h1,
          failed_pokemon, files, failed_txt, progress_file, listing_gets,
          page_gets, img_gets, outcomes, files_at_start, noimage_before,
          count, poke_page, pokedex_dict, final_df, pokemon_db_csv, pokemon_csv,
          t_gets, soup, gender_stats, male, female>>

table == <<count, poke_page, pokedex_dict, final_df, pokemon_db_csv,
           pokemon_csv, t_gets>>

parsing == <<soup, gender_stats, male, female>>

---------------------------------------------------------------------------
(* Bounds of the model *)

MaxListing == 2      \* anchors on the listing page the downloader runs over
MaxAnchors == 3      \* anchors on the listing page when only the listing is built
MaxRuns == 2         \* runs of the script over the same disk

(* Program constants *)

retry_limit == 3

---------------------------------------------------------------------------
(* Strings *)

None == <<"None">>

base_url == <<"https:", "/", "/", "pokemondb.net">>

folder_name == <<"pokemon_images">>

\* the names an anchor may show: two differ only by case, one has a space
NameSet == { <<"A">>, <<"a">>, <<"B", " ", "c">> }

\* the hrefs an anchor may carry
HrefSet == { <<"/", "pokedex/a">>, <<"/", "pokedex/b">> }

Anchors == [name : NameSet, href : HrefSet]

ListingsUpTo(max) == UNION { [1..n -> Anchors] : n \in 0..max }

\* str.lower() on one character
LowerChar(c) ==
    CASE c = "A" -> "a"
      [] c = "B" -> "b"
      [] c = "C" -> "c"
      [] OTHER -> c

\* str.lower()
Lower(s) == [k \in DOMAIN s |-> LowerChar(s[k])]

\* str.replace(' ', '_')
ReplaceSpace(s) == [k \in DOMAIN s |-> IF s[k] = " " THEN "_" ELSE s[k]]

\* str.startswith(prefix)
StartsWith(s, prefix) ==
    /\ Len(s) >= Len(prefix)
    /\ SubSeq(s, 1, Len(prefix)) = prefix

\* urljoin(base_url, href) for the root-relative hrefs of the listing
Urljoin(base, href) == base \o href

PokeNameKeepSpaces(name) == Lower(name)

\* row['pokemon'].lower().replace(' ', '_')
PokeName(name) == ReplaceSpace(Lower(name))

\* os.path.join(folder_name, f"{poke_name}_image.jpg")
ImgPath(poke_name) == folder_name \o <<"/">> \o poke_name \o <<"_image.jpg">>

---------------------------------------------------------------------------
(* Step 2: removing duplicates *)

\* unique = []; for x in s: if x not in unique: unique.append(x)
RECURSIVE UniqueFrom(_, _, _)
UniqueFrom(s, k, acc) ==
    IF k > Len(s) THEN acc
    ELSE IF \E j \in DOMAIN acc : acc[j] = s[k]
         THEN UniqueFrom(s, k + 1, acc)
         ELSE UniqueFrom(s, k + 1, Append(acc, s[k]))

UniqueKeepAll(s) == s

Unique(s) == UniqueFrom(s, 1, <<>>)

---------------------------------------------------------------------------
(* Detail pages and the image reference (lines 137-151) *)

NoTag == [found |-> FALSE, has_attr |-> FALSE, value |-> None]

artwork_href == <<"https:", "/", "/", "img.pokemondb.net", "/", "artwork/x.jpg">>

\* what soup.select_one('a[rel="lightbox"]') may return
ArtworkTags ==
    { NoTag,
      [found |-> TRUE, has_attr |-> FALSE, value |-> None],
      [found |-> TRUE, has_attr |-> TRUE, value |-> <<>>],
      [found |-> TRUE, has_attr |-> TRUE, value |-> artwork_href],
      [found |-> TRUE, has_attr |-> TRUE, value |-> <<"/", "artwork/x.jpg">>] }

SpriteSrcs ==
    { <<"https:", "/", "/", "img.pokemondb.net", "/", "sprites/x.png">>,
      <<"/", "/", "img.pokemondb.net", "/", "sprites/x.png">>,
      <<"/", "sprites/x.png">>,
      <<"..", "/", "sprites/x.png">> }

\* what soup.select_one('img[src*="/sprites/"]') may return
SpriteTags ==
    {NoTag} \cup {[found |-> TRUE, has_attr |-> TRUE, value |-> v] : v \in SpriteSrcs}

\* the parsed body of a status-200 detail page
Pages == [h1 : NameSet, artwork : ArtworkTags, sprite : SpriteTags]

FixSpriteUrlAsIs(src) == src

\* lines 147-151
FixSpriteUrl(src) ==
    IF StartsWith(src, <<"/", "/">>) THEN <<"https:">> \o src
    ELSE IF StartsWith(src, <<"/">>)
         THEN <<"https:", "/", "/", "img.pokemondb.net">> \o src
         ELSE src

\* lines 138-151
ImageUrl(page) ==
    IF page.artwork.found /\ page.artwork.has_attr
    THEN page.artwork.value
    ELSE IF page.sprite.found /\ page.sprite.has_attr
         THEN FixSpriteUrl(page.sprite.value)
         ELSE None

\* `if image_url:` (line 153): None and the empty string are false
Truthy(u) == u # None /\ u # <<>>

\* requests refuses a URL without a scheme before sending anything
HasScheme(u) == StartsWith(u, <<"https:", "/", "/">>)

---------------------------------------------------------------------------
(* The current row *)

Row == link_frame[counter]

\* line 109
poke_name == PokeName(Row.pokemon)

\* line 110
poke_url == Row.url

\* line 112
img_path == ImgPath(poke_name)

ExistsNever(path, fs) == FALSE

ExistsOnlyComplete(path, fs) == path \in DOMAIN fs /\ fs[path].complete

\* os.path.exists(img_path) (line 115)
Exists(path, fs) == path \in DOMAIN fs

WhileCondOneMore(att) == att <= retry_limit

\* `while attempts < retry_limit` (line 129)
WhileCond(att) == att < retry_limit

GiveUpEarly(att) == att >= 1

\* `if attempts == retry_limit` (line 169)
GiveUp(att) == att = retry_limit

\* the file at `path` holding `content`
WriteTo(fs, path, content) ==
    [p \in DOMAIN fs \cup {path} |-> IF p = path THEN content ELSE fs[p]]

NoFile == [exists |-> FALSE, lines |-> <<>>]

EmptyDisk == [p \in {} |-> [complete |-> FALSE]]

---------------------------------------------------------------------------
(* Detail pages as the table scraper reads them (src/pokemon_db.py) *)

\* the keys of pokedex_dict, in the order pokemon_scraper extracts them
Columns ==
    <<"poke_name_from_link", "pokedex_num", "elem_1", "elem_2", "species",
      "height_meters", "weight_kg", "male", "female", "hp", "attack",
      "defense", "sp_atk", "sp_def", "speed", "total">>

ColumnSet == {Columns[k] : k \in DOMAIN Columns}

\* the text of the National Pokedex number cell
NumSet == { <<"0", "0", "2", "5">>, <<"1", "5", "0">> }

\* the first column whose extraction raises on this page; 0: none does
Broken == {0, 1, 8, 16}

\* a response body: its h1, its number cell, and where its structure breaks
Bodies == [h1 : NameSet, pokedex_num : NumSet, broken : Broken]

Responses == [status_code : {200, 404}, body : Bodies]

NoResponse ==
    [status_code |-> 0, body |-> [h1 |-> None, pokedex_num |-> None, broken |-> 0]]

\* a cell of a data frame column: a str object or an int64
StrCell(text) == [dtype |-> "str", text |-> text, value |-> 0]

IntCell(n) == [dtype |-> "int64", text |-> <<>>, value |-> n]

NoCsv == [exists |-> FALSE, rows |-> <<>>]

EmptyDict == [c \in ColumnSet |-> <<>>]

NoPage == [h1 |-> None, artwork |-> NoTag, sprite |-> NoTag]

---------------------------------------------------------------------------
(* Initial state: a fresh checkout, before the first run *)

FreshTable ==
    /\ count = 0
    /\ poke_page = NoResponse
    /\ pokedex_dict = EmptyDict
    /\ final_df = <<>>
    /\ pokemon_db_csv = NoCsv
    /\ pokemon_csv = <<>>
    /\ t_gets = 0

FreshParsing ==
    /\ soup = NoPage
    /\ gender_stats = <<>>
    /\ male = 0
    /\ female = 0

\* the image scraper's variables before its first statement
Unstarted ==
    /\ run = 1
    /\ pokemon_names = <<>>
    /\ completed_links = <<>>
    /\ unique_pokemon = <<>>
    /\ unique_links = <<>>
    /\ link_frame = <<>>
    /\ counter = 1
    /\ attempts = 0
    /\ image_url = None
    /\ page_h1 = None
    /\ failed_pokemon = <<>>
    /\ files = EmptyDisk
    /\ failed_txt = NoFile
    /\ progress_file = NoFile
    /\ listing_gets = 0
    /\ page_gets = 0
    /\ img_gets = 0
    /\ outcomes = <<>>
    /\ files_at_start = {}
    /\ noimage_before = {}

Fresh ==
    /\ pc = "listing"
    /\ Unstarted

Init ==
    /\ site_anchors \in ListingsUpTo(MaxListing)
    /\ Fresh
    /\ FreshTable
    /\ FreshParsing

disk == <<files, failed_txt, progress_file>>

listing == <<pokemon_names, completed_links, unique_pokemon, unique_links,
             link_frame>>

hist == <<page_gets, img_gets, noimage_before>>

---------------------------------------------------------------------------
(* Steps 1-4 (lines 26-83): listing, de-duplication, link_frame *)

\* link_frame = pd.DataFrame({'pokemon': names, 'url': links}) (lines 61-64)
LinkFrame(names, links) ==
    [k \in 1..Len(names) |-> [pokemon |-> names[k], url |-> links[k]]]

\* the anchors selected from the response body: an error page has none
ListingOf(anchor_elem) ==
    LET all_names == [k \in DOMAIN anchor_elem |-> anchor_elem[k].name]
        all_links ==
            [k \in DOMAIN anchor_elem |-> Urljoin(base_url, anchor_elem[k].href)]
        names == Unique(all_names)
        links == Unique(all_links)
    IN  /\ pokemon_names' = all_names
        /\ completed_links' = all_links
        /\ unique_pokemon' = names
        /\ unique_links' = links
        /\ IF Len(names) = Len(links)
           THEN /\ link_frame' = LinkFrame(names, links)
                /\ pc' = "for"
           ELSE \* pandas: "All arrays must be of the same length"
                /\ link_frame' = <<>>
                /\ pc' = "crashed"

\* get(url) raises (no connection): the script dies at line 30
FetchListingRaises ==
    /\ pc = "listing"
    /\ pc' = "crashed"
    /\ listing_gets' = listing_gets + 1
    /\ UNCHANGED <<table, parsing,
                   site_anchors, run, listing, counter, attempts, image_url,
                   page_h1, failed_pokemon, disk, hist, outcomes,
                   files_at_start>>

\* get(url) returns; the status code is not looked at (lines 30-34)
FetchListing ==
    /\ pc = "listing"
    /\ \E status_code \in {200, 503} :
          ListingOf(IF status_code = 200 THEN site_anchors ELSE <<>>)
    /\ listing_gets' = listing_gets + 1
    /\ UNCHANGED <<table, parsing,
                   site_anchors, run, counter, attempts, image_url, page_h1,
                   failed_pokemon, disk, hist, outcomes, files_at_start>>

---------------------------------------------------------------------------
(* Step 5 (lines 85-176): the download loop *)

\* the for-loop is exhausted
ForEnd ==
    /\ pc = "for"
    /\ counter > Len(link_frame)
    /\ pc' = "log"
    /\ UNCHANGED <<table, parsing,
                   site_anchors, run, listing, counter, attempts, image_url,
                   page_h1, failed_pokemon, disk, listing_gets, hist,
                   outcomes, files_at_start>>

\* lines 114-117: the image exists, `continue`
ForSkip ==
    /\ pc = "for"
    /\ counter <= Len(link_frame)
    /\ Exists(img_path, files)
    /\ counter' = counter + 1
    /\ outcomes' = Append(outcomes, "SKIPPED")
    /\ page_gets' = 0
    /\ img_gets' = 0
    /\ UNCHANGED <<table, parsing,
                   site_anchors, pc, run, listing, attempts, image_url, page_h1,
                   failed_pokemon, disk, listing_gets, files_at_start,
                   noimage_before>>

\* lines 119-129: the row is to be downloaded
ForBody ==
    /\ pc = "for"
    /\ counter <= Len(link_frame)
    /\ ~Exists(img_path, files)
    /\ attempts' = 0
    /\ page_gets' = 0
    /\ img_gets' = 0
    /\ pc' = IF WhileCond(0) THEN "page" ELSE "sleep"
    /\ UNCHANGED <<table, parsing,
                   site_anchors, run, listing, counter, image_url, page_h1,
                   failed_pokemon, disk, listing_gets, outcomes, files_at_start,
                   noimage_before>>

\* lines 131-133: get(poke_url) raises, or the status is not 200
GetPageFails ==
    /\ pc = "page"
    /\ \E raised \in BOOLEAN : \E status_code \in {404, 503} : pc' = "except"
    /\ page_gets' = page_gets + 1
    /\ image_url' = None
    /\ page_h1' = None
    /\ UNCHANGED <<table, parsing,
                   site_anchors, run, listing, counter, attempts, failed_pokemon,
                   disk, listing_gets, img_gets, outcomes, files_at_start,
                   noimage_before>>

\* lines 131-153, 162-164: the page arrives; without an image reference, `break`
GetPage ==
    /\ pc = "page"
    /\ \E page \in Pages :
          IF Truthy(ImageUrl(page))
          THEN /\ image_url' = ImageUrl(page)
               /\ page_h1' = page.h1
               /\ pc' = "image"
               /\ outcomes' = outcomes
          ELSE /\ image_url' = None
               /\ page_h1' = None
               /\ pc' = "sleep"
               /\ outcomes' = Append(outcomes, "NOIMAGE")
    /\ page_gets' = page_gets + 1
    /\ UNCHANGED <<table, parsing,
                   site_anchors, run, listing, counter, attempts, failed_pokemon,
                   disk, listing_gets, img_gets, files_at_start, noimage_before>>

\* line 154: requests rejects a URL without scheme; nothing is sent
GetImageBadUrl ==
    /\ pc = "image"
    /\ ~HasScheme(image_url)
    /\ pc' = "except"
    /\ UNCHANGED <<table, parsing,
                   site_anchors, run, listing, counter, attempts, image_url,
                   page_h1, failed_pokemon, disk, listing_gets, hist,
                   outcomes, files_at_start>>

\* lines 154-155, 160-161: get(image_url) raises, or the status is not 200
GetImageFails ==
    /\ pc = "image"
    /\ HasScheme(image_url)
    /\ \E raised \in BOOLEAN : \E status_code \in {404, 503} : pc' = "except"
    /\ img_gets' = img_gets + 1
    /\ UNCHANGED <<table, parsing,
                   site_anchors, run, listing, counter, attempts, image_url,
                   page_h1, failed_pokemon, disk, listing_gets, page_gets,
                   outcomes, files_at_start, noimage_before>>

\* lines 154-155: the image arrives with status 200
GetImage ==
    /\ pc = "image"
    /\ HasScheme(image_url)
    /\ pc' = "write"
    /\ img_gets' = img_gets + 1
    /\ UNCHANGED <<table, parsing,
                   site_anchors, run, listing, counter, attempts, image_url,
                   page_h1, failed_pokemon, disk, listing_gets, page_gets,
                   outcomes, files_at_start, noimage_before>>

\* lines 156-159: the file is written, `break`
WriteImage ==
    /\ pc = "write"
    /\ files' = WriteTo(files, img_path, [complete |-> TRUE])
    /\ outcomes' = Append(outcomes, "DOWNLOADED")
    /\ pc' = "sleep"
    /\ image_url' = None
    /\ page_h1' = None
    /\ UNCHANGED <<table, parsing,
                   site_anchors, run, listing, counter, attempts, failed_pokemon,
                   failed_txt, progress_file, listing_gets, hist,
                   files_at_start>>

\* line 156: open() raises; the disk is as before
OpenRaises ==
    /\ pc = "write"
    /\ pc' = "except"
    /\ UNCHANGED <<table, parsing,
                   site_anchors, run, listing, counter, attempts, image_url,
                   page_h1, failed_pokemon, disk, listing_gets, hist,
                   outcomes, files_at_start>>

\* line 157: open() created the file and f.write() raises
WriteRaises ==
    /\ pc = "write"
    /\ files' = WriteTo(files, img_path, [complete |-> FALSE])
    /\ pc' = "except"
    /\ UNCHANGED <<table, parsing,
                   site_anchors, run, listing, counter, attempts, image_url,
                   page_h1, failed_pokemon, failed_txt, progress_file,
                   listing_gets, hist, outcomes, files_at_start>>

ExceptSkipsDelay ==
    /\ pc = "except"
    /\ attempts' = attempts + 1
    /\ IF GiveUp(attempts')
       THEN /\ failed_pokemon' = Append(failed_pokemon, poke_name)
            /\ outcomes' = Append(outcomes, "FAILED")
            /\ counter' = counter + 1
            /\ pc' = "for"
       ELSE /\ failed_pokemon' = failed_pokemon
            /\ outcomes' = outcomes
            /\ counter' = counter
            /\ pc' = "page"
    /\ image_url' = None
    /\ page_h1' = None
    /\ UNCHANGED <<table, parsing,
                   site_anchors, run, listing, disk, listing_gets, hist,
                   files_at_start>>

\* lines 166-174, then the loop test of line 129
Except ==
    /\ pc = "except"
    /\ attempts' = attempts + 1
    /\ IF GiveUp(attempts')
       THEN /\ failed_pokemon' = Append(failed_pokemon, poke_name)
            /\ outcomes' = Append(outcomes, "FAILED")
       ELSE /\ failed_pokemon' = failed_pokemon
            /\ outcomes' = outcomes
    /\ pc' = IF WhileCond(attempts') THEN "page" ELSE "sleep"
    /\ image_url' = None
    /\ page_h1' = None
    /\ UNCHANGED <<table, parsing,
                   site_anchors, run, listing, counter, disk, listing_gets,
                   hist, files_at_start>>

\* line 176: time.sleep(delay_between_requests), then the next row
Sleep ==
    /\ pc = "sleep"
    /\ counter' = counter + 1
    /\ pc' = "for"
    /\ UNCHANGED <<table, parsing,
                   site_anchors, run, listing, attempts, image_url, page_h1,
                   failed_pokemon, disk, listing_gets, hist, outcomes,
                   files_at_start>>

---------------------------------------------------------------------------
(* Lines 178-188: the failure log *)

LogFailures ==
    /\ pc = "log"
    /\ failed_txt' = IF failed_pokemon # <<>>
                     THEN [exists |-> TRUE, lines |-> failed_pokemon]
                     ELSE failed_txt
    /\ pc' = "done"
    /\ UNCHANGED <<table, parsing,
                   site_anchors, run, listing, counter, attempts, image_url,
                   page_h1, failed_pokemon, files, progress_file, listing_gets,
                   hist, outcomes, files_at_start>>

---------------------------------------------------------------------------
(* The script is started again over the disk the last run left.  A run     *)
(* that died at the listing left nothing behind: starting again after it   *)
(* is starting from Init.                                                  *)

StartRun ==
    /\ pc = "done"
    /\ run < MaxRuns
    /\ run' = run + 1
    /\ pc' = "listing"
    /\ pokemon_names' = <<>>
    /\ completed_links' = <<>>
    /\ unique_pokemon' = <<>>
    /\ unique_links' = <<>>
    /\ link_frame' = <<>>
    /\ counter' = 1
    /\ attempts' = 0
    /\ image_url' = None
    /\ page_h1' = None
    /\ failed_pokemon' = <<>>
    /\ listing_gets' = 0
    /\ page_gets' = 0
    /\ img_gets' = 0
    /\ outcomes' = <<>>
    /\ files_at_start' = DOMAIN files
    /\ noimage_before' = noimage_before \cup
          { PokeName(link_frame[k].pokemon) :
              k \in {j \in DOMAIN outcomes : outcomes[j] = "NOIMAGE"} }
    /\ UNCHANGED <<table, parsing,
                   site_anchors, disk>>

\* one run of the script
RunNext ==
    \/ FetchListingRaises
    \/ FetchListing
    \/ ForEnd
    \/ ForSkip
    \/ ForBody
    \/ GetPageFails
    \/ GetPage
    \/ GetImageBadUrl
    \/ GetImageFails
    \/ GetImage
    \/ WriteImage
    \/ OpenRaises
    \/ WriteRaises
    \/ Except
    \/ Sleep
    \/ LogFailures

Next ==
    \/ RunNext
    \/ StartRun

Spec == Init /\ [][Next]_vars

(* Building the listing alone, over longer listing pages *)

InitListing ==
    /\ site_anchors \in ListingsUpTo(MaxAnchors)
    /\ Fresh
    /\ FreshTable
    /\ FreshParsing

NextListing ==
    \/ FetchListingRaises
    \/ FetchListing

SpecListing == InitListing /\ [][NextListing]_vars

\* a single run; the interpreter always takes the next step of the script
FairRun == Init /\ [][RunNext]_vars /\ WF_vars(RunNext)

---------------------------------------------------------------------------
(* The table scraper (src/pokemon_db.py) *)

image == <<run, counter, attempts, image_url, page_h1, failed_pokemon, disk,
           listing_gets, hist, outcomes, files_at_start>>

\* the value pokemon_scraper extracts for a column (lines 126-177); only the
\* name and the number are told apart, the other fourteen travel as "v"
Extracted(body, c) ==
    IF c = "poke_name_from_link" THEN body.h1
    ELSE IF c = "pokedex_num" THEN body.pokedex_num
    ELSE <<"v">>

\* pokemon_scraper raises on this page (an index or conversion error)
ScraperRaises(body) == body.broken # 0

ScraperAppendsAsParsed(body, dict) ==
    [c \in ColumnSet |->
        IF body.broken = 0 \/ (\E k \in 1..(body.broken - 1) : Columns[k] = c)
        THEN Append(dict[c], Extracted(body, c))
        ELSE dict[c]]

\* pokedex_dict after pokemon_scraper(poke_content, pokedex_dict) (lines
\* 118-195): every value is extracted first, the appends come last
PokemonScraper(body, dict) ==
    IF ScraperRaises(body)
    THEN dict
    ELSE [c \in ColumnSet |-> Append(dict[c], Extracted(body, c))]

\* pd.DataFrame(pokedex_dict) with pokedex_num as str (lines 233-236)
PokedexDf(dict) ==
    [k \in 1..Len(dict["poke_name_from_link"]) |->
        [poke_name_from_link |-> dict["poke_name_from_link"][k],
         pokedex_num |-> StrCell(dict["pokedex_num"][k])]]

\* the rows of df that match one row of link_frame, in the order of df
RECURSIVE Matches(_, _, _)
Matches(left, df, j) ==
    IF j > Len(df) THEN <<>>
    ELSE (IF df[j].poke_name_from_link = left.pokemon
          THEN << [pokemon |-> left.pokemon, url |-> left.url,
                   pokedex_num |-> df[j].pokedex_num] >>
          ELSE <<>>) \o Matches(left, df, j + 1)

\* pd.merge(link_frame, pokedex_df, left_on="pokemon",
\* right_on="poke_name_from_link") and the drop of the key column (lines
\* 240-244): an inner join, in the order of link_frame
RECURSIVE Merge(_, _, _)
Merge(lf, df, i) ==
    IF i > Len(lf) THEN <<>>
    ELSE Matches(lf[i], df, 1) \o Merge(lf, df, i + 1)

\* a cell as to_csv writes it
CsvText(cell) == cell.text

\* final_df.to_csv(file_name, index=False) (line 254)
ToCsv(df) ==
    [k \in DOMAIN df |->
        [pokemon |-> df[k].pokemon, url |-> df[k].url,
         pokedex_num |-> CsvText(df[k].pokedex_num)]]

IsDigit(c) == c \in {"0", "1", "2", "3", "4", "5", "6", "7", "8", "9"}

DigitValue(c) ==
    CASE c = "0" -> 0 [] c = "1" -> 1 [] c = "2" -> 2 [] c = "3" -> 3
      [] c = "4" -> 4 [] c = "5" -> 5 [] c = "6" -> 6 [] c = "7" -> 7
      [] c = "8" -> 8 [] c = "9" -> 9

AllDigits(text) == text # <<>> /\ \A k \in DOMAIN text : IsDigit(text[k])

\* the integer a digit string denotes
RECURSIVE ParseInt(_)
ParseInt(text) ==
    IF text = <<>> THEN 0
    ELSE 10 * ParseInt(SubSeq(text, 1, Len(text) - 1)) + DigitValue(text[Len(text)])

\* pd.read_csv(file_name) (line 257): a column all of whose cells are
\* integer literals is read as int64, the others stay str
ReadCsv(rows) ==
    LET numeric == \A k \in DOMAIN rows : AllDigits(rows[k].pokedex_num)
    IN  [k \in DOMAIN rows |->
            [pokemon |-> rows[k].pokemon, url |-> rows[k].url,
             pokedex_num |-> IF numeric
                             THEN IntCell(ParseInt(rows[k].pokedex_num))
                             ELSE StrCell(rows[k].pokedex_num)]]

\* get(url) raises: the script dies at line 17
TableFetchListingRaises ==
    /\ pc = "listing"
    /\ pc' = "t_crashed"
    /\ UNCHANGED <<table, parsing, site_anchors, listing, image>>

\* lines 17-92: the listing is fetched (the status code is not looked at),
\* de-duplicated and put in link_frame
TableFetchListing ==
    /\ pc = "listing"
    /\ \E status_code \in {200, 503} :
          LET anchor_elem == IF status_code = 200 THEN site_anchors ELSE <<>>
              all_names == [k \in DOMAIN anchor_elem |-> anchor_elem[k].name]
              all_links ==
                  [k \in DOMAIN anchor_elem |->
                      Urljoin(base_url, anchor_elem[k].href)]
              names == Unique(all_names)
              links == Unique(all_links)
          IN  IF anchor_elem = <<>>
              THEN \* anchor_elem[0] (line 40): IndexError
                   /\ pc' = "t_crashed"
                   /\ UNCHANGED listing
              ELSE /\ pokemon_names' = all_names
                   /\ completed_links' = all_links
                   /\ unique_pokemon' = names
                   /\ unique_links' = links
                   /\ IF Len(names) = Len(links)
                      THEN /\ link_frame' = LinkFrame(names, links)
                           /\ pc' = "t_loop"
                      ELSE \* pandas: "All arrays must be of the same length"
                           /\ link_frame' = <<>>
                           /\ pc' = "t_crashed"
    /\ UNCHANGED <<table, parsing, site_anchors, image>>

\* line 210: get(poke_site) raises; nothing catches it
TableGetRaises ==
    /\ pc = "t_loop"
    /\ count < Len(link_frame)
    /\ pc' = "t_crashed"
    /\ t_gets' = t_gets + 1
    /\ UNCHANGED <<count, poke_page, pokedex_dict, final_df, pokemon_db_csv,
                   pokemon_csv, parsing, site_anchors, listing, image>>

\* line 210: the response arrives, whatever its status
TableGet ==
    /\ pc = "t_loop"
    /\ count < Len(link_frame)
    /\ poke_page' \in Responses
    /\ pc' = "t_parse"
    /\ t_gets' = t_gets + 1
    /\ UNCHANGED <<count, pokedex_dict, final_df, pokemon_db_csv, pokemon_csv,
                   parsing, site_anchors, listing, image>>

\* lines 213-226: the body is parsed and scraped; an error in
\* pokemon_scraper ends the script where it stands.  After a successful
\* call the response is not read again.
TableParse ==
    /\ pc = "t_parse"
    /\ pokedex_dict' = PokemonScraper(poke_page.body, pokedex_dict)
    /\ IF ScraperRaises(poke_page.body)
       THEN /\ pc' = "t_crashed"
            /\ count' = count
            /\ poke_page' = poke_page
       ELSE /\ pc' = "t_loop"
            /\ count' = count + 1
            /\ poke_page' = NoResponse
    /\ UNCHANGED <<final_df, pokemon_db_csv, pokemon_csv, t_gets, parsing,
                   site_anchors, listing, image>>

\* lines 233-257: the frames are merged, written and read back
TableBuild ==
    /\ pc = "t_loop"
    /\ count = Len(link_frame)
    /\ final_df' = Merge(link_frame, PokedexDf(pokedex_dict), 1)
    /\ pokemon_db_csv' = [exists |-> TRUE, rows |-> ToCsv(final_df')]
    /\ pokemon_csv' = ReadCsv(ToCsv(final_df'))
    /\ pc' = "t_done"
    /\ UNCHANGED <<count, poke_page, pokedex_dict, t_gets, parsing,
                   site_anchors, listing, image>>

NextTable ==
    \/ TableFetchListingRaises
    \/ TableFetchListing
    \/ TableGetRaises
    \/ TableGet
    \/ TableParse
    \/ TableBuild

SpecTable == Init /\ [][NextTable]_vars

---------------------------------------------------------------------------
(* The image reference of one page, taken alone (image scraper lines 135-164) *)

InitSelect ==
    /\ site_anchors = <<>>
    /\ pc = "select"
    /\ Unstarted
    /\ FreshTable
    /\ soup \in Pages
    /\ gender_stats = <<>>
    /\ male = 0
    /\ female = 0

\* lines 138-151
SelectImage ==
    /\ pc = "select"
    /\ image_url' = ImageUrl(soup)
    /\ pc' = "selected"
    /\ UNCHANGED <<table, parsing, site_anchors, listing, run, counter, attempts,
                   page_h1, failed_pokemon, disk, listing_gets, hist, outcomes,
                   files_at_start>>

\* lines 153-164: the request of a URL with no scheme raises
RequestImage ==
    /\ pc = "selected"
    /\ pc' = IF ~Truthy(image_url) THEN "no_image"
             ELSE IF HasScheme(image_url) THEN "requested"
             ELSE "raised"
    /\ img_gets' = IF Truthy(image_url) /\ HasScheme(image_url)
                 THEN img_gets + 1 ELSE img_gets
    /\ UNCHANGED <<table, parsing, site_anchors, listing, run, counter, attempts,
                   image_url, page_h1, failed_pokemon, disk, listing_gets,
                   page_gets, noimage_before, outcomes, files_at_start>>

NextSelect ==
    \/ SelectImage
    \/ RequestImage

SpecSelect == InitSelect /\ [][NextSelect]_vars

---------------------------------------------------------------------------
(* The gender cell, taken alone (src/pokemon_db.py lines 156-168) *)

MaxTokens == 3

Genderless == <<"Genderless">>

\* the strings of the cell's children that are not white space
TokenSet ==
    { Genderless,
      <<"8", "8", ".", "1", "%">>,
      <<"-">>,
      <<"1", "1", ".", "9", "%">>,
      <<"5", "0", "%">> }

TokenLists == UNION {[1..n -> TokenSet] : n \in 0..MaxTokens}

\* s.split('%')[0]: the text before the first '%', all of s when there is none
SplitPercent(s) ==
    LET at == {i \in DOMAIN s : s[i] = "%"}
    IN  IF at = {} THEN s
        ELSE SubSeq(s, 1, (CHOOSE i \in at : \A j \in at : i <= j) - 1)

Dot(s) == {i \in DOMAIN s : s[i] = "."}

\* whether float(s) returns: digits with at most one point (signs, exponents
\* and surrounding blanks do not occur in TokenSet)
IsFloat(s) ==
    /\ \A i \in DOMAIN s : IsDigit(s[i]) \/ s[i] = "."
    /\ \E i \in DOMAIN s : IsDigit(s[i])
    /\ Cardinality(Dot(s)) <= 1

\* float(s) in tenths; the strings of TokenSet have at most one decimal
Float(s) ==
    IF Dot(s) = {} THEN 10 * ParseInt(s)
    ELSE LET d == CHOOSE i \in Dot(s) : TRUE
             whole == SubSeq(s, 1, d - 1)
             frac == SubSeq(s, d + 1, Len(s))
         IN  10 * (IF whole = <<>> THEN 0 ELSE ParseInt(whole))
               + (IF frac = <<>> THEN 0 ELSE DigitValue(frac[1]))

FemaleTokenSecond(stats) == stats[2]

\* line 168: gender_stats[2]
FemaleToken(stats) == stats[3]

InitGender ==
    /\ site_anchors = <<>>
    /\ pc = "gender"
    /\ Unstarted
    /\ FreshTable
    /\ soup = NoPage
    /\ gender_stats \in TokenLists
    /\ male = 0
    /\ female = 0

\* lines 163-168; an IndexError or a ValueError leaves pokemon_scraper
ParseGender ==
    /\ pc = "gender"
    /\ IF \E i \in DOMAIN gender_stats : gender_stats[i] = Genderless
       THEN /\ male' = 0
            /\ female' = 0
            /\ pc' = "g_done"
       ELSE IF Len(gender_stats) < 1 \/ ~IsFloat(SplitPercent(gender_stats[1]))
       THEN /\ UNCHANGED <<male, female>>
            /\ pc' = "g_raised"
       ELSE /\ male' = Float(SplitPercent(gender_stats[1]))
            /\ IF Len(gender_stats) < 3
                  \/ ~IsFloat(SplitPercent(FemaleToken(gender_stats)))
               THEN /\ female' = female
                    /\ pc' = "g_raised"
               ELSE /\ female' = Float(SplitPercent(FemaleToken(gender_stats)))
                    /\ pc' = "g_done"
    /\ UNCHANGED <<table, soup, gender_stats, site_anchors, listing, image>>

NextGender == ParseGender

SpecGender == InitGender /\ [][NextGender]_vars

---------------------------------------------------------------------------
(* Properties of the image downloader *)

LoopPcs == {"for", "page", "image", "write", "except", "sleep"}

AttemptPcs == {"page", "image", "write", "except"}

Last(s) == s[Len(s)]

Range(s) == {s[k] : k \in DOMAIN s}

\* the key of row k of link_frame, computed as line 109 says
KeyOfRow(k) == ReplaceSpace(Lower(link_frame[k].pokemon))

NumFailed == Cardinality({k \in DOMAIN outcomes : outcomes[k] = "FAILED"})

\* C1: an entity all of whose attempts raise is appended to failed_pokemon
\* exactly once, by the failure handler of its retry_limit-th attempt (after
\* retry_limit detail-page requests) and by no earlier step, and the loop
\* then leaves the entity for the next row.
C1_RetryExhaustion ==
    /\ [][(failed_pokemon' # failed_pokemon /\ pc' # "listing") =>
            /\ pc = "except"
            /\ attempts = retry_limit - 1
            /\ attempts' = retry_limit
            /\ page_gets = retry_limit
            /\ failed_pokemon' = Append(failed_pokemon, KeyOfRow(counter))
            /\ pc' = "sleep"]_vars
    /\ [](pc \in AttemptPcs => attempts < retry_limit)
    /\ []((pc = "sleep" /\ attempts = retry_limit) =>
            /\ failed_pokemon # <<>>
            /\ Last(failed_pokemon) = KeyOfRow(counter)
            /\ Last(outcomes) = "FAILED")
    /\ [](Len(failed_pokemon) = NumFailed)
    /\ [][pc = "sleep" => (pc' = "for" /\ counter' = counter + 1)]_vars

\* a run in which the first of two rows failed and the loop is at the second
C1_Witness ==
    /\ pc = "for"
    /\ Len(link_frame) = 2
    /\ counter = 2
    /\ outcomes = <<"FAILED">>
    /\ failed_pokemon = <<KeyOfRow(1)>>

Outcomes == {"SKIPPED", "DOWNLOADED", "NOIMAGE", "FAILED"}

\* the rows that have reached their terminal outcome
RowsDone == IF pc \in AttemptPcs THEN counter - 1
            ELSE IF pc = "sleep" THEN counter
            ELSE IF pc = "for" THEN counter - 1
            ELSE Len(link_frame)

PathOfRow(k) == ImgPath(KeyOfRow(k))

C4_ProgressHoldsKeys ==
    (pc = "done" /\ \A k \in DOMAIN outcomes : outcomes[k] = "DOWNLOADED") =>
        \A k \in DOMAIN link_frame : KeyOfRow(k) \in Range(progress_file.lines)

\* C5: a row whose image path holds a file when the loop reaches it is
\* skipped: the loop moves to the next row, no detail-page or image request
\* is sent for it, the disk is left as it was and failed_pokemon does not
\* grow; the first detail-page request of a row is sent only when no file is
\* at its path.
C5_ExistingFileSkipped ==
    /\ [][(pc = "for" /\ counter <= Len(link_frame)
             /\ PathOfRow(counter) \in DOMAIN files) =>
            /\ pc' = "for"
            /\ counter' = counter + 1
            /\ outcomes' = Append(outcomes, "SKIPPED")
            /\ files' = files
            /\ failed_pokemon' = failed_pokemon
            /\ listing_gets' = listing_gets
            /\ page_gets' = 0
            /\ img_gets' = 0]_vars
    /\ []((pc = "page" /\ attempts = 0) => PathOfRow(counter) \notin DOMAIN files)

\* in a first run the second row was skipped for the file the first row wrote
C5_Witness ==
    /\ run = 1
    /\ outcomes = <<"DOWNLOADED", "SKIPPED">>
    /\ failed_pokemon = <<>>

\* C6 (as claimed): the detail page of an entity whose page had no image
\* reference in an earlier run is not requested again.
C6_NoImageNotRetried ==
    pc = "page" => KeyOfRow(counter) \notin noimage_before

\* C7 (as claimed): a file is written only at the path of the normalised
\* header name of the detail page that supplied the image.
C7_PathFromHeader ==
    [][files' # files =>
        /\ pc = "write"
        /\ \E c \in {[complete |-> TRUE], [complete |-> FALSE]} :
              files' = WriteTo(files, ImgPath(ReplaceSpace(Lower(page_h1))), c)]_vars

\* C7 (amended): the disk changes only in the write step, which is reached
\* only from an image request answered with status 200, and the file
\* written is the one at folder/<key>_image.jpg, the key being the
\* lower-cased listing name of the row with spaces replaced by underscores.
C7_PathFromListingName ==
    /\ [][files' # files =>
            /\ pc = "write"
            /\ \E c \in {[complete |-> TRUE], [complete |-> FALSE]} :
                  files' = WriteTo(files, PathOfRow(counter), c)]_vars
    /\ [][(pc' = "write") => (pc = "image" /\ img_gets' = img_gets + 1)]_vars
    /\ [](\A k \in DOMAIN outcomes : outcomes[k] = "DOWNLOADED" =>
            /\ PathOfRow(k) \in DOMAIN files
            /\ files[PathOfRow(k)].complete)

\* the row named "B c" was downloaded to b_c_image.jpg
C7_Witness ==
    /\ pc = "sleep"
    /\ Last(outcomes) = "DOWNLOADED"
    /\ link_frame[counter].pokemon = <<"B", " ", "c">>
    /\ <<"pokemon_images", "/", "b", "_", "c", "_image.jpg">> \in DOMAIN files

\* the keys of the rows that reached FAILED in this run, in row order
RECURSIVE FailedKeys(_)
FailedKeys(n) ==
    IF n = 0 THEN <<>>
    ELSE IF outcomes[n] = "FAILED"
         THEN Append(FailedKeys(n - 1), KeyOfRow(n))
         ELSE FailedKeys(n - 1)

\* C8 (as claimed): at the end of a run the failure log lists exactly the
\* rows that reached FAILED in that run, in row order (none: an empty log);
\* stated for the runs that visited at least one row.
C8_LogIsThisRun ==
    (pc = "done" /\ outcomes # <<>>) =>
        failed_txt.lines = FailedKeys(Len(outcomes))

\* C9 (as claimed): the loop moves to the next row only through the
\* inter-entity delay.
C9_DelayAfterEveryRow ==
    [][counter' = counter + 1 => pc = "sleep"]_vars

\* C9 (amended): the inter-entity delay is executed after every row that
\* was not skipped (DOWNLOADED, NOIMAGE or FAILED); a row skipped because
\* its image exists is left without the delay.
C9_DelayUnlessSkipped ==
    /\ [][counter' = counter + 1 =>
            \/ pc = "sleep"
            \/ (pc = "for" /\ PathOfRow(counter) \in DOMAIN files)]_vars
    /\ [][(pc \in AttemptPcs) =>
            (counter' = counter /\ pc' \in (AttemptPcs \cup {"sleep"}))]_vars
    /\ [](pc = "sleep" => Last(outcomes) \in {"DOWNLOADED", "NOIMAGE", "FAILED"})

\* a failed row waits in the delay before the next row
C9_Witness ==
    /\ pc = "sleep"
    /\ attempts = retry_limit
    /\ Last(outcomes) = "FAILED"

\* the first position of x in s
FirstIndex(s, x) == CHOOSE k \in DOMAIN s : s[k] = x /\ \A m \in 1..(k - 1) : s[m] # x

\* C10: the de-duplicated names hold every listed name exactly once, in
\* the order of the names' first occurrences in the listing.
C10_DedupOrder ==
    /\ Range(unique_pokemon) = Range(pokemon_names)
    /\ \A i, j \in DOMAIN unique_pokemon :
          i < j =>
            /\ unique_pokemon[i] # unique_pokemon[j]
            /\ FirstIndex(pokemon_names, unique_pokemon[i])
                 < FirstIndex(pokemon_names, unique_pokemon[j])

\* a listing with a repeated name after another name
C10_Witness ==
    /\ pokemon_names = << <<"B", " ", "c">>, <<"a">>, <<"B", " ", "c">> >>
    /\ unique_pokemon = << <<"B", " ", "c">>, <<"a">> >>

---------------------------------------------------------------------------
(* Properties of the listing *)

\* C11 (as claimed): whenever the listing page showed anchors, link_frame is
\* built without error, has one row per distinct name, and every row pairs
\* its name with the link of the first anchor showing that name.
C11_RowsPairFirstLink ==
    (pc # "listing" /\ pokemon_names # <<>>) =>
        /\ pc # "crashed"
        /\ Len(link_frame) = Len(unique_pokemon)
        /\ \A k \in DOMAIN link_frame :
              link_frame[k].url =
                 completed_links[FirstIndex(pokemon_names, link_frame[k].pokemon)]

---------------------------------------------------------------------------
(* Properties of the table scraper *)

\* C12 (as claimed): the identifier of every row read back from the table
\* file is the same zero-padded string that was written.
C12_IdentifierRoundTrip ==
    pc = "t_done" =>
        /\ Len(pokemon_csv) = Len(final_df)
        /\ \A k \in DOMAIN final_df :
              pokemon_csv[k].pokedex_num = final_df[k].pokedex_num

\* C13 (as claimed): a run that writes the table without error has a row
\* for every row of the listing.
C13_NoRowDropped ==
    pokemon_db_csv.exists =>
        \A i \in DOMAIN link_frame :
            \E k \in DOMAIN pokemon_db_csv.rows :
                pokemon_db_csv.rows[k].pokemon = link_frame[i].pokemon

\* C14: pokemon_scraper is all-or-nothing: a call that raises leaves
\* pokedex_dict as it was, a call that returns appends one value to each of
\* the sixteen columns, and the sixteen columns always have the same length.
C14_AllOrNothing ==
    /\ [](\A c \in ColumnSet : Len(pokedex_dict[c]) = count)
    /\ [][(pc = "t_parse" /\ poke_page.body.broken # 0) =>
            (pokedex_dict' = pokedex_dict /\ pc' = "t_crashed")]_vars
    /\ [][(pc = "t_parse" /\ poke_page.body.broken = 0) =>
            \A c \in ColumnSet : Len(pokedex_dict'[c]) = Len(pokedex_dict[c]) + 1]_vars

\* the second page broke at its eighth column after the first was scraped
C14_Witness ==
    /\ pc = "t_crashed"
    /\ poke_page.body.broken = 8
    /\ count = 1
    /\ Len(pokedex_dict["total"]) = 1

\* C15 (as claimed): when the listing response shows no name anchor (an
\* error page, or a page without anchors) the script ends with an error
\* before any per-entity work.
C15_ListingFetchFails ==
    (pc # "listing" /\ pokemon_names = <<>>) => pc = "crashed"

\* C16 (as claimed): the body of a detail-page response is handed to the
\* parser only when its status is 200.
C16_OnlySuccessParsed ==
    pc = "t_parse" => poke_page.status_code = 200

\* C17 (as claimed): in the table scraper a failed request (one that
\* raises, or one answered with a status other than 200) or a failed parse
\* ends the run at that row: nothing is fetched after it and the table file
\* is not written; the table file exists only after every row of
\* link_frame was fetched and scraped, one after the other.
C17_FailureIsFatal ==
    /\ [][pc = "t_crashed" => FALSE]_vars
    /\ [](pc = "t_crashed" => ~pokemon_db_csv.exists)
    /\ [][(pc = "t_parse" /\ poke_page.body.broken # 0) => pc' = "t_crashed"]_vars
    /\ [][(pc = "t_parse" /\ poke_page.status_code # 200) => pc' = "t_crashed"]_vars
    /\ [][t_gets' # t_gets => (t_gets = count /\ t_gets' = t_gets + 1)]_vars
    /\ [](pokemon_db_csv.exists =>
            /\ count = Len(link_frame)
            /\ t_gets = Len(link_frame)
            /\ \A c \in ColumnSet : Len(pokedex_dict[c]) = Len(link_frame))

---------------------------------------------------------------------------
(* Properties of the parsing steps and of the retry loop *)

\* C18 (as claimed): the image reference chosen on a fetched page is an
\* absolute URL whenever one is chosen, so the URL requested is absolute.
C18_RequestedUrlAbsolute ==
    (pc = "selected" /\ Truthy(image_url)) => HasScheme(image_url)

sprite_url == <<"https:", "/", "/", "img.pokemondb.net", "/", "sprites/x.png">>

\* C18 (amended): an artwork link with an href gives its href, unchanged,
\* whatever the sprite is; otherwise the sprite src is used, a src starting
\* with '//' behind 'https:', a src starting with one '/' behind the image
\* host, any other src unchanged; with neither there is no image.  The URL is
\* absolute when the href used is absolute or the src used is absolute or
\* starts with '/', and only a URL with a scheme is requested.
C18_ArtworkFirst ==
    LET a == soup.artwork
        s == soup.sprite
        src == s.value
    IN  /\ pc = "selected" =>
            /\ (a.found /\ a.has_attr) => image_url = a.value
            /\ (~(a.found /\ a.has_attr) /\ s.found) =>
                  /\ (src[1] = "/" /\ src[2] = "/") =>
                        image_url = <<"https:">> \o src
                  /\ (src[1] = "/" /\ src[2] # "/") =>
                        image_url = <<"https:", "/", "/", "img.pokemondb.net">> \o src
                  /\ src[1] # "/" => image_url = src
                  /\ src[1] \in {"/", "https:"} => image_url = sprite_url
            /\ (~(a.found /\ a.has_attr) /\ ~s.found) => image_url = None
        /\ pc = "requested" => (img_gets = 1 /\ image_url \in {artwork_href, sprite_url})
        /\ pc = "raised" =>
              /\ img_gets = 0
              /\ image_url \in {<<"/", "artwork/x.jpg">>, <<"..", "/", "sprites/x.png">>}
        /\ pc = "no_image" => (img_gets = 0 /\ image_url \in {None, <<>>})

\* a page without artwork whose sprite src is root-relative
C18_Witness ==
    /\ pc = "requested"
    /\ ~soup.artwork.found
    /\ soup.sprite.value = <<"/", "sprites/x.png">>
    /\ image_url = sprite_url

\* the ratio, in tenths, that a percentage of TokenSet denotes
PctOf(t) ==
    CASE t = <<"8", "8", ".", "1", "%">> -> 881
      [] t = <<"1", "1", ".", "9", "%">> -> 119
      [] t = <<"5", "0", "%">> -> 500
      [] OTHER -> -1

HasGenderless == \E i \in DOMAIN gender_stats : gender_stats[i] = <<"Genderless">>

\* C19: when the token "Genderless" is among the tokens both ratios are
\* 0.0; otherwise the ratios are the first and the third token without
\* their '%' (the second token is not read), and the parse fails exactly
\* when one of those two is missing or is not a percentage.
C19_GenderRatios ==
    /\ (pc \in {"g_done", "g_raised"} /\ HasGenderless) =>
          (pc = "g_done" /\ male = 0 /\ female = 0)
    /\ (pc = "g_done" /\ ~HasGenderless) =>
          /\ Len(gender_stats) >= 3
          /\ PctOf(gender_stats[1]) >= 0
          /\ PctOf(gender_stats[3]) >= 0
          /\ male = PctOf(gender_stats[1])
          /\ female = PctOf(gender_stats[3])
    /\ pc = "g_raised" =>
          \/ Len(gender_stats) < 3
          \/ PctOf(gender_stats[1]) < 0
          \/ PctOf(gender_stats[3]) < 0

\* the tokens "88.1%", "-", "11.9%" gave 88.1 and 11.9
C19_Witness ==
    /\ pc = "g_done"
    /\ gender_stats = << <<"8", "8", ".", "1", "%">>, <<"-">>,
                         <<"1", "1", ".", "9", "%">> >>
    /\ male = 881
    /\ female = 119

\* C20: page failures and image failures of a row count against the same
\* attempts: the counter never exceeds retry_limit, every failed attempt
\* adds one to it and either goes back to the detail-page request or leaves
\* the row, a row sends at most retry_limit detail-page requests and at most
\* as many image requests, and the retry loop always reaches the delay.
C20_OneAttemptBudget ==
    /\ [](attempts <= retry_limit)
    /\ [](pc \in AttemptPcs \cup {"sleep"} =>
            /\ page_gets <= retry_limit
            /\ img_gets <= page_gets
            /\ page_gets <= attempts + 1)
    /\ [][(pc \in {"page", "image", "write"} /\ pc' = "except") =>
            attempts' = attempts]_vars
    /\ [][pc = "except" =>
            /\ attempts' = attempts + 1
            /\ pc' = IF attempts' < retry_limit THEN "page" ELSE "sleep"]_vars
    /\ [][(pc \in AttemptPcs /\ counter' # counter) => FALSE]_vars
    /\ (pc \in AttemptPcs) ~> (pc = "sleep")

\* a row given up after one failed page request and two failed image requests
C20_Witness ==
    /\ pc = "sleep"
    /\ attempts = retry_limit
    /\ page_gets = retry_limit
    /\ img_gets = retry_limit - 1
    /\ Last(outcomes) = "FAILED"

---------------------------------------------------------------------------
(* Properties of keys, files and rows across entities *)

\* C21 (as claimed): in a run that started with no image file on disk no
\* row is skipped as already existing, because the rows of link_frame, whose
\* names are distinct, have distinct image paths.
C21_NoSkipFromEmptyDisk ==
    files_at_start = {} => \A k \in DOMAIN outcomes : outcomes[k] # "SKIPPED"

\* C22 (as claimed): when a run has ended every image file on disk is
\* complete, and the path of every entity in failed_pokemon holds no file
\* that this run wrote.
C22_FilesComplete ==
    pc = "done" =>
        /\ \A p \in DOMAIN files : files[p].complete
        /\ \A k \in DOMAIN outcomes :
              outcomes[k] = "FAILED" =>
                 (PathOfRow(k) \in DOMAIN files => PathOfRow(k) \in files_at_start)

\* C23 (as claimed): in the table file every listing name is in at most one
\* row, and there are no more rows than rows of link_frame.
C23_OneRowPerName ==
    pokemon_db_csv.exists =>
        /\ \A i, j \in DOMAIN pokemon_db_csv.rows :
              pokemon_db_csv.rows[i].pokemon = pokemon_db_csv.rows[j].pokemon => i = j
        /\ Len(pokemon_db_csv.rows) <= Len(link_frame)

====
